---- MODULE Spec2Model ----
(***************************************************************************)
(* RNA-seq read aligner (Algorithm.ipynb and the seed-finder notebook).    *)
(*                                                                         *)
(* Python values are kept 0-based as in the source (offsets, exon starts,  *)
(* read_start, reference_start); TLA+ sequences are 1-based, so element i  *)
(* of a Python list l is l[i + 1] here.                                    *)
(***************************************************************************)
EXTENDS Integers, Sequences, FiniteSets, TLC

VARIABLES
    genome_sequence,   \* the genome string (read_genome)
    transcriptome,     \* known_transcriptome: genes -> isoforms -> [isoform, exons]
    notebook,          \* the notebook whose globals s, sa, M, occ are
    s,                 \* the indexed text
    sa,                \* its suffix array
    M,                 \* first-occurrence table
    occ,               \* occurrence table
    pc,                \* position of the running query
    op,                \* the function the query called
    read,              \* argument of the running query
    gene_i,            \* align_to_transcriptome: index of the gene being visited
    iso_i,             \* align_to_transcriptome: index of the isoform within it
    match,             \* align_to_transcriptome: local variable match
    result,            \* value returned by align_to_transcriptome
    frames,            \* arguments of the find_seeds / seed_finder invocations so far
    seeds,             \* find_seeds: the seeds of the invocations so far
    max_so_far,        \* seed_finder: local variables test, max_so_far
    queries,           \* number of exact_suffix_matches calls of the running query
    out,               \* value returned by the genome-side query
    first              \* outcome of the query that ran before the running one

indexVars == <<genome_sequence, notebook, s, sa, M, occ>>
inputVars == <<indexVars, transcriptome>>
transcriptomeVars == <<gene_i, iso_i, match, result>>
seedVars == <<frames, seeds, max_so_far, queries, out>>

vars == <<inputVars, pc, op, read, transcriptomeVars, seedVars, first>>

----------------------------------------------------------------------------
(* Bounds of the model *)

MaxReadLen == 3
MaxIsoforms == 2
MaxGenes == 2

(* The mismatch ceiling of align_to_isoform.  The notebook imports it; its
   value is scaled to the read lengths of the model so that offsets above
   and below the ceiling both occur. *)
MAX_NUM_MISMATCHES == 1

----------------------------------------------------------------------------
(* Python helpers *)

Range(q) == {q[i] : i \in DOMAIN q}

\* s[a:b] for 0 <= a, with Python's clipping of b to len(s)
Slice(q, a, b) ==
    LET hi == IF b > Len(q) THEN Len(q) ELSE b
    IN  IF a >= hi THEN <<>> ELSE SubSeq(q, a + 1, hi)

\* all sequences over S of length lo..hi
SeqsOf(S, lo, hi) == UNION {[1..n -> S] : n \in lo..hi}

\* float("inf"): above every mismatch count a read of the model can have
Infinity == MaxReadLen + MAX_NUM_MISMATCHES + 2

\* the three shapes of value align_to_isoform / align_to_transcriptome bind
\* to "alignment": the integer -1, a list of pieces, or a raised exception
MinusOne == [tag |-> "minus1", pieces |-> <<>>]
List(p) == [tag |-> "list", pieces |-> p]
Fault == [tag |-> "fault", pieces |-> <<>>]

----------------------------------------------------------------------------
(* Building the transcriptome tables *)

\* an exon of genes.tab: [start, end) in genome coordinates
Exon(b, e) == [start |-> b, end |-> e]

\* the body of "for ex in iso.exons": returns [isoform, exons]
RECURSIVE BuildIsoform(_, _, _, _, _, _)
BuildIsoform(genome, iso_exons, k, isoform, exons, total_len) ==
    IF k > Len(iso_exons) THEN <<isoform, exons>>
    ELSE LET ex == iso_exons[k]
         IN  BuildIsoform(genome, iso_exons, k + 1,
                          isoform \o Slice(genome, ex.start, ex.end),
                          Append(exons, <<total_len, ex.start, ex.end - ex.start>>),
                          total_len + (ex.end - ex.start))

\* known_transcriptome[gene][iso] = [isoform, exons] for every gene, isoform
BuildTranscriptome(genome, genes) ==
    [g \in DOMAIN genes |->
        [i \in DOMAIN genes[g] |-> BuildIsoform(genome, genes[g][i], 1, <<>>, <<>>, 0)]]

----------------------------------------------------------------------------
(* find_alignment *)

\* exons[i] with Python's index rules: negative indices count from the end,
\* anything else out of range raises IndexError (here: <<>>)
PyIndex(l, i) ==
    IF 0 <= i /\ i < Len(l) THEN l[i + 1]
    ELSE IF i < 0 /\ -i <= Len(l) THEN l[Len(l) + i + 1]
    ELSE <<>>

\* find_start_location with the exon's range closed at its end
RECURSIVE find_start_location_ClosedRange(_, _, _, _, _)
find_start_location_ClosedRange(exons, align_start, lo, hi, fuel) ==
    LET mid == (lo + hi) \div 2
        e == PyIndex(exons, mid)
    IN  IF fuel = 0 \/ e = <<>> THEN -2
        ELSE IF e[1] <= align_start /\ align_start <= e[1] + e[3] THEN mid
        ELSE IF e[1] + e[3] <= align_start
             THEN find_start_location_ClosedRange(exons, align_start, mid + 1, hi, fuel - 1)
             ELSE find_start_location_ClosedRange(exons, align_start, lo, mid - 1, fuel - 1)

\* find_start_location; fuel bounds the recursion (RecursionError = -2),
\* IndexError = -2 as well: both abort find_alignment
RECURSIVE find_start_location(_, _, _, _, _)
find_start_location(exons, align_start, lo, hi, fuel) ==
    LET mid == (lo + hi) \div 2
        e == PyIndex(exons, mid)
    IN  IF fuel = 0 \/ e = <<>> THEN -2
        ELSE IF e[1] <= align_start /\ align_start < e[1] + e[3] THEN mid
        ELSE IF e[1] + e[3] <= align_start
             THEN find_start_location(exons, align_start, mid + 1, hi, fuel - 1)
             ELSE find_start_location(exons, align_start, lo, mid - 1, fuel - 1)

\* AppendPieces with the next piece started where the last one started
RECURSIVE AppendPieces_SameStart(_, _, _, _)
AppendPieces_SameStart(exons, algn, read_len, idx) ==
    IF read_len > 0
    THEN LET e == PyIndex(exons, idx + 1)
             last == algn[Len(algn)]
         IN  IF e = <<>> THEN Fault
             ELSE AppendPieces_SameStart(exons,
                               Append(algn, <<last[1], e[2],
                                              IF read_len <= e[3] THEN read_len ELSE e[3]>>),
                               read_len - e[3], idx + 1)
    ELSE List(algn)

\* AppendPieces with the exon's spliced offset in place of its genome start
RECURSIVE AppendPieces_SplicedStart(_, _, _, _)
AppendPieces_SplicedStart(exons, algn, read_len, idx) ==
    IF read_len > 0
    THEN LET e == PyIndex(exons, idx + 1)
             last == algn[Len(algn)]
         IN  IF e = <<>> THEN Fault
             ELSE AppendPieces_SplicedStart(exons,
                               Append(algn, <<last[1] + last[3], e[1],
                                              IF read_len <= e[3] THEN read_len ELSE e[3]>>),
                               read_len - e[3], idx + 1)
    ELSE List(algn)

\* the while loop of find_alignment
RECURSIVE AppendPieces(_, _, _, _)
AppendPieces(exons, algn, read_len, idx) ==
    IF read_len > 0
    THEN LET e == PyIndex(exons, idx + 1)
             last == algn[Len(algn)]
         IN  IF e = <<>> THEN Fault
             ELSE AppendPieces(exons,
                               Append(algn, <<last[1] + last[3], e[2],
                                              IF read_len <= e[3] THEN read_len ELSE e[3]>>),
                               read_len - e[3], idx + 1)
    ELSE List(algn)

\* find_alignment with a first piece that is never cut at the exon's end
find_alignment_NoCut(read_len, align_start, exons) ==
    LET idx == find_start_location(exons, align_start, 0, Len(exons), Len(exons) + 2)
    IN  IF idx = -2 THEN Fault
        ELSE LET e == PyIndex(exons, idx)
                 d == align_start - e[1]
                 algn == << <<0, e[2] + d, read_len>> >>
             IN  AppendPieces(exons, algn, read_len - (e[3] - d), idx)

find_alignment(read_len, align_start, exons) ==
    LET idx == find_start_location(exons, align_start, 0, Len(exons), Len(exons) + 2)
    IN  IF idx = -2 THEN Fault
        ELSE LET e == PyIndex(exons, idx)
                 d == align_start - e[1]
                 algn == << <<0, e[2] + d,
                              IF read_len + d <= e[3] THEN read_len ELSE e[3] - d>> >>
             IN  AppendPieces(exons, algn, read_len - (e[3] - d), idx)

----------------------------------------------------------------------------
(* align_to_isoform *)

\* CountMismatches that breaks as soon as the ceiling is reached
RECURSIVE CountMismatches_BreakAtCeiling(_, _, _, _, _)
CountMismatches_BreakAtCeiling(rd, isoform, i, j, mismatches) ==
    IF j < Len(rd)
    THEN LET m == IF isoform[i + j + 1] # rd[j + 1] THEN mismatches + 1 ELSE mismatches
         IN  IF m >= MAX_NUM_MISMATCHES THEN <<j, m>>
             ELSE CountMismatches_BreakAtCeiling(rd, isoform, i, j + 1, m)
    ELSE <<j, mismatches>>

\* the inner while loop: returns <<j, mismatches>> at loop exit
RECURSIVE CountMismatches(_, _, _, _, _)
CountMismatches(rd, isoform, i, j, mismatches) ==
    IF j < Len(rd)
    THEN LET m == IF isoform[i + j + 1] # rd[j + 1] THEN mismatches + 1 ELSE mismatches
         IN  IF m > MAX_NUM_MISMATCHES THEN <<j, m>>
             ELSE CountMismatches(rd, isoform, i, j + 1, m)
    ELSE <<j, mismatches>>

RECURSIVE ScanOffsets_LastOffset(_, _, _, _)
ScanOffsets_LastOffset(rd, isoform, i, m) ==
    IF i >= Len(isoform) - Len(rd) + 1 THEN m
    ELSE LET c == CountMismatches(rd, isoform, i, 0, 0)
         IN  ScanOffsets_LastOffset(rd, isoform, i + 1,
                         IF c[1] = Len(rd) /\ c[2] <= m[2] THEN <<i, c[2]>> ELSE m)

\* the for loop over offsets i; m is the local match = (offset, mismatches)
RECURSIVE ScanOffsets(_, _, _, _)
ScanOffsets(rd, isoform, i, m) ==
    IF i >= Len(isoform) - Len(rd) + 1 THEN m
    ELSE LET c == CountMismatches(rd, isoform, i, 0, 0)
         IN  ScanOffsets(rd, isoform, i + 1,
                         IF c[1] = Len(rd) /\ c[2] < m[2] THEN <<i, c[2]>> ELSE m)

\* returns <<alignment, mismatches>>
align_to_isoform(rd, isoform, exons) ==
    LET m == ScanOffsets(rd, isoform, 0, <<-1, Infinity>>)
    IN  IF m[1] = -1 THEN <<MinusOne, m[2]>>
        ELSE <<find_alignment(Len(rd), m[1], exons), m[2]>>

----------------------------------------------------------------------------
(* The FM-index: suffix array, BWT, M and occ (imported by the notebooks) *)

BASES == <<"A", "C", "G", "T">>
TERMINATOR == "$"

Symbols == <<TERMINATOR>> \o BASES

\* order of the symbols: the terminator is smaller than every base
SymRank(c) == CHOOSE r \in DOMAIN Symbols : Symbols[r] = c

Reverse(q) == [i \in 1..Len(q) |-> q[Len(q) + 1 - i]]

\* suffix text[i:] sorts before suffix text[j:] (0-based i, j)
RECURSIVE SuffixLess(_, _, _)
SuffixLess(text, i, j) ==
    IF j >= Len(text) THEN FALSE
    ELSE IF i >= Len(text) THEN TRUE
    ELSE IF text[i + 1] # text[j + 1] THEN SymRank(text[i + 1]) < SymRank(text[j + 1])
    ELSE SuffixLess(text, i + 1, j + 1)

\* get_suffix_array(s): the start positions of the suffixes in sorted order
get_suffix_array(text) ==
    [r \in 1..Len(text) |->
        CHOOSE p \in 0..(Len(text) - 1) :
            Cardinality({q \in 0..(Len(text) - 1) : SuffixLess(text, q, p)}) = r - 1]

\* get_bwt(s, sa): L[i] = s[sa[i] - 1], where s[-1] is the last symbol of s
get_bwt(text, suffixes) ==
    [i \in DOMAIN suffixes |->
        IF suffixes[i] = 0 THEN text[Len(text)] ELSE text[suffixes[i]]]

CountOf(L, c) == Cardinality({i \in DOMAIN L : L[i] = c})
CountBelow(L, c) == Cardinality({i \in DOMAIN L : SymRank(L[i]) < SymRank(c)})

\* get_F(L): the symbols of L in sorted order
get_F(L) ==
    [i \in DOMAIN L |->
        CHOOSE c \in Range(Symbols) :
            CountBelow(L, c) < i /\ i <= CountBelow(L, c) + CountOf(L, c)]

\* get_M(F): for each symbol the number of smaller symbols in F
get_M(F) == [c \in Range(Symbols) |-> CountBelow(F, c)]

\* get_occ(L): occ[c][k] = number of c in L[0:k]
get_occ(L) ==
    [c \in Range(Symbols) |->
        [k \in 0..Len(L) |-> Cardinality({i \in 1..k : L[i] = c})]]

\* the length reported when the scan meets a symbol the tables have no entry
\* for: the lookup M[c] raises, and so does the caller
LookupFails == -1

\* backward search: scans p from its last symbol, keeps the interval [lo, hi)
RECURSIVE BackwardSearch(_, _, _, _, _, _)
BackwardSearch(p, Mt, occt, lo, hi, matched) ==
    IF matched = Len(p) THEN <<<<lo, hi>>, matched>>
    ELSE LET c == p[Len(p) - matched]
             lo2 == Mt[c] + occt[c][lo]
             hi2 == Mt[c] + occt[c][hi]
         IN  IF c \notin DOMAIN Mt THEN <<<<lo, hi>>, LookupFails>>
             ELSE IF lo2 >= hi2 THEN <<<<lo, hi>>, matched>>
             ELSE BackwardSearch(p, Mt, occt, lo2, hi2, matched + 1)

\* exact_suffix_matches(p, M, occ): returns <<range, length>>
exact_suffix_matches(p, Mt, occt) ==
    BackwardSearch(p, Mt, occt, 0, Cardinality(DOMAIN occt[TERMINATOR]) - 1, 0)

\* cell "Initialization" of Algorithm.ipynb: the index of genome + '$';
\* get_bwt is handed the genome without its terminator
AlgorithmIndex(genome) ==
    LET suffixes == get_suffix_array(genome \o <<"$">>)
        L == get_bwt(genome, suffixes)
    IN  [text |-> genome \o <<"$">>, sa |-> suffixes, L |-> L,
         M |-> get_M(get_F(L)), occ |-> get_occ(L)]

\* the second suffix-array builder (imported as gsa, compared with sa in the
\* seed-finder notebook): insertion of the suffixes one by one
RECURSIVE InsertSuffix(_, _, _)
InsertSuffix(text, sorted, p) ==
    IF sorted = <<>> THEN <<p>>
    ELSE IF SuffixLess(text, p, Head(sorted)) THEN <<p>> \o sorted
    ELSE <<Head(sorted)>> \o InsertSuffix(text, Tail(sorted), p)

RECURSIVE InsertSuffixes(_, _, _)
InsertSuffixes(text, sorted, p) ==
    IF p >= Len(text) THEN sorted
    ELSE InsertSuffixes(text, InsertSuffix(text, sorted, p), p + 1)

gsa(text) == InsertSuffixes(text, <<>>, 0)

\* an index cell that takes the suffix array of the genome as it stands,
\* not of the reversed text s
SeedFinderIndex_ForwardSa(genome) ==
    LET text == Reverse(genome) \o <<TERMINATOR>>
        suffixes == get_suffix_array(genome \o <<TERMINATOR>>)
        L == get_bwt(text, suffixes)
        F == get_F(L)
    IN  [text |-> text, sa |-> suffixes, L |-> L, M |-> get_M(F), occ |-> get_occ(L)]

\* cell 8 of the seed-finder notebook: the index of the reversed genome
SeedFinderIndex(genome) ==
    LET text == Reverse(genome) \o <<TERMINATOR>>
        suffixes == get_suffix_array(text)
        L == get_bwt(text, suffixes)
        F == get_F(L)
    IN  [text |-> text, sa |-> suffixes, L |-> L, M |-> get_M(F), occ |-> get_occ(L)]

----------------------------------------------------------------------------
(* Inputs *)

Genome == <<"A", "C", "G", "A", "G", "A", "C">>

\* the exons of the model's annotation table, in genomic order
ExonTable == <<Exon(0, 2), Exon(3, 4), Exon(5, 7)>>

\* an isoform is a non-empty selection of the exons, in genomic order
RECURSIVE Select(_, _)
Select(S, k) ==
    IF k > Len(ExonTable) THEN <<>>
    ELSE IF k \in S THEN <<ExonTable[k]>> \o Select(S, k + 1) ELSE Select(S, k + 1)

Isoforms == {Select(S, 1) : S \in (SUBSET (1..Len(ExonTable))) \ {{}}}

RECURSIVE Sum(_)
Sum(ns) == IF ns = <<>> THEN 0 ELSE Head(ns) + Sum(Tail(ns))

\* numbers of isoforms per gene: up to MaxGenes genes with at least one
\* isoform each, at most MaxIsoforms isoforms in all
GeneShapes == {sh \in SeqsOf(1..MaxIsoforms, 0, MaxGenes) : Sum(sh) <= MaxIsoforms}

RECURSIVE GenesOfShape(_)
GenesOfShape(sh) ==
    IF sh = <<>> THEN {<<>>}
    ELSE {<<h>> \o t : h \in [1..Head(sh) -> Isoforms], t \in GenesOfShape(Tail(sh))}

GeneSets == UNION {GenesOfShape(sh) : sh \in GeneShapes}

\* the bases that occur in the exons
ExonBases == UNION {Range(Slice(Genome, ExonTable[k].start, ExonTable[k].end)) :
                        k \in DOMAIN ExonTable}

\* a symbol outside the DNA alphabet, as sequencers write an unread base
ForeignSymbol == "N"

\* reads that end in a symbol outside the alphabet
ForeignReads == {Append(r, ForeignSymbol) : r \in SeqsOf(ExonBases, 0, MaxReadLen - 1)}

Reads == SeqsOf(ExonBases, 1, MaxReadLen) \cup ForeignReads

----------------------------------------------------------------------------
(* align_to_transcriptome, one action per loop iteration *)

\* result before any query has returned
NoResult == <<[tag |-> "none", pieces |-> <<>>], -1>>

\* first (gene, isoform) position at or after (g, i) that exists
RECURSIVE NextPos(_, _, _)
NextPos(t, g, i) ==
    IF g > Len(t) THEN <<g, 1>>
    ELSE IF i > Len(t[g]) THEN NextPos(t, g + 1, 1)
    ELSE <<g, i>>

\* out before any genome-side query has returned
NoOut == [tag |-> "none", pieces |-> <<>>]

\* the globals an index cell leaves behind
IndexIs(index) ==
    /\ s = index.text
    /\ sa = index.sa
    /\ M = index.M
    /\ occ = index.occ

\* no query has run before
NoRun == [pc |-> "none", result |-> NoResult, out |-> NoOut]

\* no query is running
Idle ==
    /\ pc = "idle"
    /\ op = "none"
    /\ read = <<>>
    /\ gene_i = 0
    /\ iso_i = 0
    /\ match = <<MinusOne, Infinity>>
    /\ result = NoResult
    /\ frames = <<>>
    /\ seeds = <<>>
    /\ max_so_far = <<>>
    /\ queries = 0
    /\ out = NoOut
    /\ first = NoRun

Init ==
    /\ genome_sequence = Genome
    /\ \E genes \in GeneSets : transcriptome = BuildTranscriptome(Genome, genes)
    /\ notebook = "Algorithm"
    /\ IndexIs(AlgorithmIndex(Genome))
    /\ Idle

\* entry of align_to_transcriptome(r, transcriptome)
StartAlignToTranscriptome(r) ==
    /\ read' = r
    /\ match' = <<MinusOne, Infinity>>
    /\ gene_i' = NextPos(transcriptome, 1, 1)[1]
    /\ iso_i' = NextPos(transcriptome, 1, 1)[2]
    /\ pc' = "loop"
    /\ op' = "align_to_transcriptome"
    /\ result' = NoResult
    /\ UNCHANGED <<inputVars, seedVars>>

\* a first call of align_to_transcriptome
CallAlignToTranscriptome ==
    /\ pc = "idle"
    /\ \E r \in Reads : StartAlignToTranscriptome(r)
    /\ first' = first

\* the outcome of the query that has just ended
Outcome == [pc |-> pc, result |-> result, out |-> out]

\* the same call of align_to_transcriptome once more, after it has returned
RerunAlignToTranscriptome ==
    /\ pc \in {"done", "fault"}
    /\ op = "align_to_transcriptome"
    /\ first = NoRun
    /\ first' = Outcome
    /\ StartAlignToTranscriptome(read)

\* the comparison without the test on the mismatch count
Better_Always(alignment, mismatches, m) == alignment # MinusOne

\* the comparison with a strict test on the mismatch count
Better_Strict(alignment, mismatches, m) == alignment # MinusOne /\ mismatches < m[2]

\* the comparison of line 492
Better(alignment, mismatches, m) == alignment # MinusOne /\ mismatches <= m[2]

\* the exons list find_alignment was handed, consumed as the pieces are built
ExonsLeft_Consumed(exons, alignment) ==
    IF alignment.tag = "list"
    THEN SubSeq(exons, Len(alignment.pieces), Len(exons))
    ELSE exons

\* the exons list after align_to_isoform has returned: find_alignment only
\* reads exons[idx], the list of the transcriptome is left as it was
ExonsLeft(exons, alignment) == exons

\* one iteration of "for gene ... for iso ...": lines 491-493
IsoformStep ==
    /\ pc = "loop"
    /\ gene_i <= Len(transcriptome)
    /\ LET entry == transcriptome[gene_i][iso_i]
           am == align_to_isoform(read, entry[1], entry[2])
           nxt == NextPos(transcriptome, gene_i, iso_i + 1)
       IN  /\ IF am[1] = Fault
              THEN /\ pc' = "fault"
                   /\ match' = match
              ELSE /\ pc' = "loop"
                   /\ match' = IF Better(am[1], am[2], match) THEN am ELSE match
           /\ gene_i' = nxt[1]
           /\ iso_i' = nxt[2]
           /\ transcriptome' =
                 [transcriptome EXCEPT ![gene_i][iso_i][2] = ExonsLeft(@, am[1])]
    /\ UNCHANGED <<indexVars, first, op, read, result, seedVars>>

\* "return match"
ReturnMatch ==
    /\ pc = "loop"
    /\ gene_i > Len(transcriptome)
    /\ result' = match
    /\ pc' = "done"
    /\ UNCHANGED <<inputVars, first, op, read, gene_i, iso_i, match, seedVars>>

Next ==
    \/ CallAlignToTranscriptome
    \/ IsoformStep
    \/ ReturnMatch

Spec == Init /\ [][Next]_vars

----------------------------------------------------------------------------
(* Alignment to the genome: Aligner.align, align_to_genome, find_seeds *)

MaxBudget == 2
MaxSeeds == 2

\* None, as returned by a function body that ends without a return
PyNone == [tag |-> "None", pieces |-> <<>>]

SeedGenomes == { <<"A", "C", "G", "T", "A", "C">>, <<"A", "A", "C", "A">> }

SeedReads == SeqsOf(Range(BASES), 1, MaxReadLen)

\* reads of find_seeds with a symbol outside the alphabet
ForeignSeedReads ==
    {r \in SeqsOf(Range(BASES) \cup {ForeignSymbol}, 1, MaxReadLen) :
        \E i \in DOMAIN r : r[i] = ForeignSymbol}

InitGenome ==
    /\ genome_sequence \in SeedGenomes
    /\ transcriptome = BuildTranscriptome(genome_sequence, <<>>)
    /\ notebook \in {"Algorithm", "seed_finder"}
    /\ IndexIs(IF notebook = "Algorithm" THEN AlgorithmIndex(genome_sequence)
                                         ELSE SeedFinderIndex(genome_sequence))
    /\ Idle

\* Aligner.align(read_sequence): the body is "pass"
Align ==
    /\ pc = "idle"
    /\ notebook = "Algorithm"
    /\ \E r \in SeedReads : read' = r
    /\ op' = "align"
    /\ out' = PyNone
    /\ pc' = "done"
    /\ UNCHANGED <<inputVars, first, transcriptomeVars, frames, seeds, max_so_far, queries>>

\* align_to_genome(read): the body is "pass"
AlignToGenome ==
    /\ pc = "idle"
    /\ notebook = "Algorithm"
    /\ \E r \in SeedReads : read' = r
    /\ op' = "align_to_genome"
    /\ out' = PyNone
    /\ pc' = "done"
    /\ UNCHANGED <<inputVars, first, transcriptomeVars, frames, seeds, max_so_far, queries>>

replace_base_at_index(read_sequence, idx, base) ==
    Slice(read_sequence, 0, idx) \o <<base>> \o
    Slice(read_sequence, idx + 1, Len(read_sequence))

\* possible_changes: the bases other than the one at 0-based position idx
PossibleChanges(q, idx) == SelectSeq(BASES, LAMBDA b : b # q[idx + 1])

\* find_seeds, "for change in possible_changes": returns
\* <<max_so_far, updated, raised>>;
\* a candidate is <<range, length, read, misses>>
RECURSIVE TryChanges(_, _, _, _, _, _, _)
TryChanges(read_sequence, idx, changes, ci, misses, msf, updated) ==
    IF ci > Len(changes) THEN <<msf, updated, FALSE>>
    ELSE LET new_read == replace_base_at_index(read_sequence, idx, changes[ci])
             em == exact_suffix_matches(new_read, M, occ)
         IN  IF em[2] = LookupFails THEN <<msf, updated, TRUE>>
             ELSE IF em[2] > msf[2]
             THEN TryChanges(read_sequence, idx, changes, ci + 1, misses,
                             <<em[1], em[2], new_read, misses + 1>>, TRUE)
             ELSE TryChanges(read_sequence, idx, changes, ci + 1, misses, msf, updated)

\* ExtendSeed that keeps substituting while the budget is reached, not only
\* while it is not yet reached
RECURSIVE ExtendSeed_PastBudget(_, _, _, _, _, _, _)
ExtendSeed_PastBudget(read_sequence, length, len_read, mismatches, msf, updated, nq) ==
    IF msf[4] <= mismatches /\ msf[2] < len_read /\ updated
    THEN LET changes == PossibleChanges(msf[3], len_read - msf[2] - 1)
             r == TryChanges(read_sequence, len_read - length - 1, changes, 1,
                             msf[4], msf, FALSE)
         IN  IF r[3] THEN <<r[1], nq + Len(changes), TRUE>>
             ELSE ExtendSeed_PastBudget(read_sequence, length, len_read, mismatches,
                                        r[1], r[2], nq + Len(changes))
    ELSE <<msf, nq, FALSE>>

\* find_seeds, the while loop: returns
\* <<max_so_far, number of index queries, raised>>
RECURSIVE ExtendSeed(_, _, _, _, _, _, _)
ExtendSeed(read_sequence, length, len_read, mismatches, msf, updated, nq) ==
    IF msf[4] < mismatches /\ msf[2] < len_read /\ updated
    THEN LET changes == PossibleChanges(msf[3], len_read - msf[2] - 1)
             r == TryChanges(read_sequence, len_read - length - 1, changes, 1,
                             msf[4], msf, FALSE)
         IN  IF r[3] THEN <<r[1], nq + Len(changes), TRUE>>
             ELSE ExtendSeed(read_sequence, length, len_read, mismatches, r[1], r[2],
                             nq + Len(changes))
    ELSE <<msf, nq, FALSE>>

\* l[i] is defined (no IndexError)
InRange(l, i) == -Len(l) <= i /\ i < Len(l)

\* [sa[i] for i in max_so_far[0]]: i runs over the two members of the tuple;
\* ok is FALSE when sa[i] raises IndexError
SeedPositions(range) ==
    IF InRange(sa, range[1]) /\ InRange(sa, range[2])
    THEN [ok |-> TRUE, val |-> <<PyIndex(sa, range[1]), PyIndex(sa, range[2])>>]
    ELSE [ok |-> FALSE, val |-> <<>>]

\* one invocation of find_seeds as far as its seed:
\* <<max_so_far, queries, raised>>
SeedOf(frame) ==
    LET read_sequence == Reverse(frame.read)
        em == exact_suffix_matches(read_sequence, M, occ)
    IN  IF em[2] = LookupFails THEN <<<<em[1], 0, read_sequence, 0>>, 1, TRUE>>
        ELSE ExtendSeed(read_sequence, em[2], Len(read_sequence), frame.mismatches,
                        <<em[1], em[2], read_sequence, 0>>, TRUE, 1)

\* NoSeeds that lets a seed count of zero through
NoSeeds_OnlyWithoutBudget(frame) == frame.k = 0 /\ frame.mismatches = 0

\* "if not k": the invocation returns [] before it touches the index
NoSeeds(frame) == frame.k = 0

\* a seeds list that carries over what earlier calls left in it
NewSeeds_Leftover == seeds

\* "seeds = []" of line 890
NewSeeds == <<>>

\* entry of find_seeds(r, mismatches = m, k = k)
StartFindSeeds(r, m, k) ==
    /\ read' = r
    /\ frames' = <<[read |-> r, mismatches |-> m, k |-> k]>>
    /\ seeds' = NewSeeds
    /\ queries' = 0
    /\ op' = "find_seeds"
    /\ pc' = "find_seeds"
    /\ UNCHANGED <<inputVars, transcriptomeVars, max_so_far, out>>

\* a first call of find_seeds
CallFindSeeds ==
    /\ pc = "idle"
    /\ notebook = "Algorithm"
    /\ \E r \in SeedReads \cup ForeignSeedReads, m \in 0..MaxBudget, k \in 0..MaxSeeds :
          StartFindSeeds(r, m, k)
    /\ first' = first

\* the same call of find_seeds once more, after it has returned or raised
RerunFindSeeds ==
    /\ pc \in {"done", "fault"}
    /\ op = "find_seeds"
    /\ first = NoRun
    /\ first' = Outcome
    /\ StartFindSeeds(frames[1].read, frames[1].mismatches, frames[1].k)

\* the body of the innermost invocation of find_seeds
FindSeedsBody ==
    /\ pc = "find_seeds"
    /\ LET frame == frames[Len(frames)]
           len_read == Len(frame.read)
           sq == SeedOf(frame)
           msf == sq[1]
           positions == SeedPositions(msf[1])
           seed == <<positions.val, msf[2], msf[4],
                     Slice(msf[3], len_read - msf[2], len_read)>>
       IN  IF NoSeeds(frame)
           THEN /\ out' = List(seeds)
                /\ pc' = "done"
                /\ UNCHANGED <<frames, seeds, queries>>
           ELSE IF sq[3] \/ ~positions.ok
           THEN /\ out' = Fault
                /\ pc' = "fault"
                /\ queries' = queries + sq[2]
                /\ UNCHANGED <<frames, seeds>>
           ELSE /\ seeds' = Append(seeds, seed)
                /\ queries' = queries + sq[2]
                /\ IF len_read = msf[2]
                   THEN /\ out' = List(seeds')
                        /\ pc' = "done"
                        /\ frames' = frames
                   ELSE /\ frames' = Append(frames,
                              [read |-> Slice(msf[3], 0, Len(msf[3]) - msf[2]),
                               mismatches |-> frame.mismatches - msf[4],
                               k |-> frame.k - 1])
                        /\ pc' = "find_seeds"
                        /\ out' = out
    /\ UNCHANGED <<inputVars, first, op, read, transcriptomeVars, max_so_far>>

----------------------------------------------------------------------------
(* The seed-finder notebook: check_seeds, find_max_so_far, seed_finder *)

MIN_INTRON_SIZE == 20
MAX_INTRON_SIZE == 10000

\* high_bound arguments: <<>> is None, <<n>> is the integer n
HighBounds == {<<>>, <<0>>, <<21>>, <<24>>, <<10003>>}

\* "not high_bound or location < high_bound and MIN <= high_bound - location <= MAX"
SeedIsValid(location, high_bound) ==
    \/ high_bound = <<>>
    \/ high_bound[1] = 0
    \/ /\ location < high_bound[1]
       /\ MIN_INTRON_SIZE <= high_bound[1] - location
       /\ high_bound[1] - location <= MAX_INTRON_SIZE

\* check_seeds, the loop over range(_range[0], _range[1]); <<-1>> marks the
\* IndexError of sa[i]
RECURSIVE CheckRows(_, _, _, _, _)
CheckRows(i, hi, length, high_bound, valid_seeds) ==
    IF i >= hi THEN valid_seeds
    ELSE IF ~InRange(sa, i) THEN <<-1>>
    ELSE LET location == PyIndex(sa, i) + length
         IN  CheckRows(i + 1, hi, length, high_bound,
                       IF SeedIsValid(location, high_bound)
                       THEN Append(valid_seeds, Len(genome_sequence) + 1 - location)
                       ELSE valid_seeds)

check_seeds(range, length, high_bound) ==
    CheckRows(range[1], range[2], length, high_bound, <<>>)

\* what a call of find_max_so_far ends with: a returned pair (test, seed),
\* None (the body ends without a return), or an exception
Returned(test, seed) == [kind |-> "pair", test |-> test, seed |-> seed]
ReturnedNone == [kind |-> "None", test |-> FALSE, seed |-> <<>>]
Raised(e) == [kind |-> e, test |-> FALSE, seed |-> <<>>]

\* find_max_so_far, the first loop over possible_changes: returns
\* <<max_so_far, updated, returned early>>; the substitution is made in the
\* current max_so_far, at its own next unmatched position
RECURSIVE FirstLoop(_, _, _, _, _, _)
FirstLoop(misses, changes, ci, len_read, msf, updated) ==
    IF ci > Len(changes) THEN <<msf, updated, FALSE>>
    ELSE LET new_read == replace_base_at_index(msf[3], len_read - msf[2] - 1, changes[ci])
             em == exact_suffix_matches(new_read, M, occ)
         IN  IF em[2] > msf[2]
             THEN IF em[2] >= len_read
                  THEN <<<<em[1], em[2], new_read, misses + 1>>, TRUE, TRUE>>
                  ELSE FirstLoop(misses, changes, ci + 1, len_read,
                                 <<em[1], em[2], new_read, misses + 1>>, TRUE)
             ELSE FirstLoop(misses, changes, ci + 1, len_read, msf, updated)

\* find_max_so_far, the second loop: the substitutions that reach the
\* greatest length
RECURSIVE Maxes(_, _, _, _, _, _)
Maxes(old, idx, changes, ci, best, maxes) ==
    IF ci > Len(changes) THEN maxes
    ELSE LET new_read == replace_base_at_index(old[3], idx, changes[ci])
             em == exact_suffix_matches(new_read, M, occ)
         IN  Maxes(old, idx, changes, ci + 1, best,
                   IF em[2] = best
                   THEN Append(maxes, <<em[1], em[2], new_read, old[4] + 1>>)
                   ELSE maxes)

RECURSIVE find_max_so_far(_, _, _)
RECURSIVE ExploreMaxes(_, _, _, _)

\* "for mx_so_far in maxes": the unpacking of a None result raises TypeError
ExploreMaxes(maxes, mi, len_read, mismatches) ==
    IF mi > Len(maxes) THEN ReturnedNone
    ELSE LET r == find_max_so_far(maxes[mi], len_read, mismatches)
         IN  IF r.kind = "None" THEN Raised("TypeError")
             ELSE IF r.kind # "pair" THEN r
             ELSE IF r.test THEN r
             ELSE ExploreMaxes(maxes, mi + 1, len_read, mismatches)

find_max_so_far(msf, len_read, mismatches) ==
    IF msf[4] < mismatches /\ msf[2] < len_read
    THEN LET idx == len_read - msf[2] - 1
             changes == PossibleChanges(msf[3], idx)
             fl == FirstLoop(msf[4], changes, 1, len_read, msf, FALSE)
         IN  IF fl[3] THEN Returned(TRUE, fl[1])
             ELSE IF fl[2]
             THEN ExploreMaxes(Maxes(msf, idx, changes, 1, fl[1][2], <<>>), 1,
                               len_read, mismatches)
             ELSE Raised("NameError")
    ELSE IF msf[4] > mismatches THEN Returned(FALSE, <<>>)
    ELSE Returned(TRUE, msf)

\* entry of seed_finder(read_sequence, high_bound, mismatches, k), up to the
\* call of find_max_so_far; with k # 1 the body ends without a return
CallSeedFinder ==
    /\ pc = "idle"
    /\ notebook = "seed_finder"
    /\ \E r \in SeedReads, hb \in HighBounds, m \in 0..MaxBudget, k \in 0..MaxSeeds :
          /\ read' = r
          /\ frames' = <<[read |-> r, mismatches |-> m, k |-> k, high_bound |-> hb]>>
          /\ IF k = 1
             THEN LET em == exact_suffix_matches(r, M, occ)
                  IN  /\ max_so_far' = Returned(TRUE, <<em[1], em[2], r, 0>>)
                      /\ queries' = 1
                      /\ pc' = "find_max_so_far"
                      /\ out' = out
             ELSE /\ out' = PyNone
                  /\ pc' = "done"
                  /\ UNCHANGED <<max_so_far, queries>>
    /\ op' = "seed_finder"
    /\ UNCHANGED <<inputVars, first, transcriptomeVars, seeds>>

\* "test, max_so_far = find_max_so_far(max_so_far, len_read, mismatches)"
FindMaxSoFar ==
    /\ pc = "find_max_so_far"
    /\ LET frame == frames[1]
           r == find_max_so_far(max_so_far.seed, Len(frame.read), frame.mismatches)
       IN  /\ max_so_far' = r
           /\ IF r.kind = "pair"
              THEN /\ pc' = "check_seeds"
                   /\ out' = out
              ELSE /\ pc' = "fault"
                   /\ out' = Fault
    /\ UNCHANGED <<inputVars, first, op, read, transcriptomeVars, frames, seeds, queries>>

\* the rest of seed_finder: "if max_so_far[1] == len_read: ..."
SeedFinderReturn ==
    /\ pc = "check_seeds"
    /\ LET frame == frames[1]
           seed == max_so_far.seed
           valid == check_seeds(seed[1], seed[2], frame.high_bound)
       IN  IF seed = <<>>
           THEN /\ pc' = "fault"
                /\ out' = Fault
           ELSE IF seed[2] # Len(frame.read)
           THEN /\ pc' = "done"
                /\ out' = [tag |-> "pair", pieces |-> <<FALSE, <<>>>>]
           ELSE IF valid = <<-1>>
           THEN /\ pc' = "fault"
                /\ out' = Fault
           ELSE /\ pc' = "done"
                /\ out' = IF valid # <<>>
                          THEN [tag |-> "pair", pieces |-> <<TRUE, <<valid, seed[2]>>>>]
                          ELSE [tag |-> "pair", pieces |-> <<FALSE, <<>>>>]
    /\ UNCHANGED <<inputVars, first, op, read, transcriptomeVars, frames, seeds,
                   max_so_far, queries>>

NextGenome ==
    \/ Align
    \/ AlignToGenome
    \/ CallFindSeeds
    \/ FindSeedsBody
    \/ CallSeedFinder
    \/ FindMaxSoFar
    \/ SeedFinderReturn

SpecGenome == InitGenome /\ [][NextGenome]_vars

----------------------------------------------------------------------------
(* The exact matcher called on its own, as in the cell
   "_range, length = exact_suffix_matches(reverse_read, M, occ)" *)

MaxTextLen == 3

\* the genome whose reversal, terminated, is the text ACGTACGTACGT$
RepeatGenome == Reverse(<<"A", "C", "G", "T", "A", "C", "G", "T", "A", "C", "G", "T">>)
RepeatQuery == <<"A", "C", "G", "T", "A", "C", "G", "T">>

MatchGenomes == SeqsOf(Range(BASES), 1, MaxTextLen) \cup {RepeatGenome}
MatchQueries == SeedReads \cup {RepeatQuery}

\* each notebook builds its index of the genome in its own way
InitMatch ==
    /\ genome_sequence \in MatchGenomes
    /\ transcriptome = BuildTranscriptome(genome_sequence, <<>>)
    /\ notebook \in {"Algorithm", "seed_finder"}
    /\ IndexIs(IF notebook = "Algorithm" THEN AlgorithmIndex(genome_sequence)
                                         ELSE SeedFinderIndex(genome_sequence))
    /\ Idle

ExactSuffixMatches ==
    /\ pc = "idle"
    /\ \E q \in MatchQueries :
          /\ read' = q
          /\ out' = [tag |-> "match", pieces |-> exact_suffix_matches(q, M, occ)]
    /\ op' = "exact_suffix_matches"
    /\ queries' = 1
    /\ pc' = "done"
    /\ UNCHANGED <<inputVars, first, transcriptomeVars, frames, seeds, max_so_far>>

NextMatch == ExactSuffixMatches

SpecMatch == InitMatch /\ [][NextMatch]_vars

----------------------------------------------------------------------------
(* Queries made a second time against the unchanged index and transcriptome *)

\* find_seeds does not read the transcriptome: its calls are explored in the
\* sessions that have no known genes
NextRerun ==
    \/ CallAlignToTranscriptome
    \/ IsoformStep
    \/ ReturnMatch
    \/ RerunAlignToTranscriptome
    \/ (transcriptome = <<>> /\ CallFindSeeds)
    \/ FindSeedsBody
    \/ RerunFindSeeds

SpecRerun == Init /\ [][NextRerun]_vars

----------------------------------------------------------------------------
(* Reference notions the properties are stated with *)

\* (gene, isoform) positions of the transcriptome, and the iteration order
Entries == {<<g, i>> : g \in DOMAIN transcriptome, i \in 1..MaxIsoforms + 1} \cap
           {<<g, i>> \in (DOMAIN transcriptome) \X (1..MaxIsoforms + 1) :
                i \in DOMAIN transcriptome[g]}

Before(a, b) == a[1] < b[1] \/ (a[1] = b[1] /\ a[2] < b[2])

IsoformOf(e) == transcriptome[e[1]][e[2]][1]
ExonsOf(e) == transcriptome[e[1]][e[2]][2]

\* number of positions at which the read differs from the isoform at offset o
Hamming(rd, isoform, o) == Cardinality({j \in 1..Len(rd) : isoform[o + j] # rd[j]})

OffsetsOf(rd, isoform) == 0..(Len(isoform) - Len(rd))

\* (entry, offset) pairs within the mismatch ceiling
Candidates ==
    {c \in Entries \X (0..Len(Genome)) :
        /\ c[2] \in OffsetsOf(read, IsoformOf(c[1]))
        /\ Hamming(read, IsoformOf(c[1]), c[2]) <= MAX_NUM_MISMATCHES}

CandidateCount(c) == Hamming(read, IsoformOf(c[1]), c[2])

MinCount == CHOOSE n \in {CandidateCount(c) : c \in Candidates} :
                \A c \in Candidates : n <= CandidateCount(c)

\* entries that reach the fewest mismatches
BestEntries == {c[1] : c \in {d \in Candidates : CandidateCount(d) = MinCount}}

FirstBest == CHOOSE e \in BestEntries : \A f \in BestEntries : e = f \/ Before(e, f)
LastBest == CHOOSE e \in BestEntries : \A f \in BestEntries : e = f \/ Before(f, e)

AlignmentOf(e) == align_to_isoform(read, IsoformOf(e), ExonsOf(e))[1]

RECURSIVE SumLengths(_)
SumLengths(pieces) ==
    IF pieces = <<>> THEN 0 ELSE Head(pieces)[3] + SumLengths(Tail(pieces))

Ordered(pieces) ==
    \A k \in 1..(Len(pieces) - 1) : pieces[k + 1][1] >= pieces[k][1] + pieces[k][3]

\* verbatim occurrences of the read in the spliced sequences
Occurrences == {c \in Candidates : CandidateCount(c) = 0}

\* the read at offset o of entry e starts in exon 1 and ends in exon 2
Straddles(e, o) ==
    /\ Len(ExonsOf(e)) >= 2
    /\ o < ExonsOf(e)[1][3]
    /\ o + Len(read) > ExonsOf(e)[1][3]
    /\ o + Len(read) <= ExonsOf(e)[1][3] + ExonsOf(e)[2][3]

\* the two pieces of a read that straddles the exon 1 / exon 2 junction
JunctionPieces(e, o) ==
    LET e1 == ExonsOf(e)[1]
        e2 == ExonsOf(e)[2]
    IN  << <<0, e1[2] + o, e1[3] - o>>,
           <<e1[3] - o, e2[2], Len(read) - (e1[3] - o)>> >>

----------------------------------------------------------------------------
(* Properties of the transcriptome aligner *)

\* C1: every alignment the transcriptome aligner holds or returns is a list
\* of pieces in which each piece starts, in the read, at or after the end of
\* the piece before it.
C1_PiecesOrdered ==
    /\ match[1].tag = "list" => Ordered(match[1].pieces)
    /\ result[1].tag = "list" => Ordered(result[1].pieces)

C1_Witness ==
    /\ pc = "done"
    /\ result[1].tag = "list"
    /\ Len(result[1].pieces) = 3

\* C2: a read that is a substring of some isoform's spliced sequence is
\* returned with 0 mismatches and pieces whose lengths sum to len(read).
C2_VerbatimRead ==
    (pc = "done" /\ Occurrences # {}) =>
        /\ result[2] = 0
        /\ result[1].tag = "list"
        /\ SumLengths(result[1].pieces) = Len(read)

C2_Witness ==
    /\ pc = "done"
    /\ Occurrences # {}
    /\ Candidates # Occurrences
    /\ Len(result[1].pieces) >= 2

\* C3: when some offset of some isoform is within the ceiling, the returned
\* mismatch count is the minimum over all offsets of all isoforms.
C3_FewestMismatches ==
    (pc = "done" /\ Candidates # {}) => result[2] = MinCount

C3_Witness ==
    /\ pc = "done"
    /\ Candidates # {}
    /\ MinCount = 1
    /\ Cardinality({c[1] : c \in Candidates}) >= 2

\* C4 as stated: on a tie the alignment of the first-encountered isoform
\* with the fewest mismatches is returned.
C4_FirstTieWins ==
    (pc = "done" /\ Candidates # {}) => result[1] = AlignmentOf(FirstBest)

\* C4 as amended: on a tie the alignment of the last-encountered isoform
\* with the fewest mismatches is returned (a later isoform with an equal
\* count replaces the earlier one).
C4_LastTieWins ==
    (pc = "done" /\ Candidates # {}) => result[1] = AlignmentOf(LastBest)

C4_Witness ==
    /\ pc = "done"
    /\ Candidates # {}
    /\ AlignmentOf(FirstBest) # AlignmentOf(LastBest)

\* C5 as stated: a read identical to a region of an isoform that straddles
\* its exon 1 / exon 2 junction yields exactly the two pieces split at the
\* junction.
C5_JunctionRead ==
    pc = "done" =>
        \A c \in Occurrences :
            Straddles(c[1], c[2]) => result[1] = List(JunctionPieces(c[1], c[2]))

\* C5 as amended: it does so when the read occurs verbatim at no other offset
\* of any isoform of the transcriptome.
C5_UniqueJunctionRead ==
    pc = "done" =>
        \A c \in Occurrences :
            (Straddles(c[1], c[2]) /\ Occurrences = {c}) =>
                result[1] = List(JunctionPieces(c[1], c[2]))

C5_Witness ==
    /\ pc = "done"
    /\ Cardinality(Entries) = 2
    /\ \E c \in Occurrences : Straddles(c[1], c[2]) /\ Occurrences = {c}

\* C6: the sentinel (-1, inf) is returned exactly when no offset of any
\* isoform is within the ceiling, and the query never ends in a fault.
C6_NoMatchSentinel ==
    /\ pc # "fault"
    /\ pc = "done" => (result = <<MinusOne, Infinity>> <=> Candidates = {})

C6_Witness ==
    /\ pc = "done"
    /\ result = <<MinusOne, Infinity>>
    /\ \E e \in Entries : Len(IsoformOf(e)) >= Len(read)
    /\ \E e \in Entries : Len(IsoformOf(e)) < Len(read)

----------------------------------------------------------------------------
(* Properties of the genome aligner and of the seed finders *)

\* the rows of the half-open interval [lo, hi) of the suffix array
IntervalRows(range) ==
    [j \in 1..(range[2] - range[1]) |-> PyIndex(sa, range[1] + j - 1)]

\* the interval the exact matcher returned for the query of seed i
SeedInterval(i) == SeedOf(frames[i])[1][1]

\* text occurs verbatim at 0-based position p of the genome
OccursAt(text, p) == Slice(genome_sequence, p, p + Len(text)) = text

\* C7 as stated: Aligner.align and align_to_genome return a list of pieces
\* for every read ([] when nothing aligns), never a non-list value and never
\* a fault.
C7_AlignReturnsList ==
    op \in {"align", "align_to_genome"} =>
        /\ pc # "fault"
        /\ pc = "done" => out.tag = "list"

\* C8: the consumed-mismatch count carried by every seed of find_seeds, and
\* by the seed find_max_so_far returns to seed_finder, does not exceed the
\* mismatch budget passed to the invocation that produced the seed.
C8_SeedWithinBudget ==
    /\ op = "find_seeds" =>
          \A i \in 1..Len(seeds) : seeds[i][3] <= frames[i].mismatches
    /\ (op = "seed_finder" /\ pc \in {"check_seeds", "done"}
            /\ max_so_far # <<>> /\ max_so_far.kind = "pair"
            /\ max_so_far.seed # <<>>) =>
          max_so_far.seed[4] <= frames[1].mismatches

C8_Witness ==
    /\ op = "find_seeds"
    /\ pc = "done"
    /\ Len(seeds) >= 2
    /\ \E i \in 1..Len(seeds) :
          seeds[i][3] >= 1 /\ seeds[i][3] = frames[i].mismatches

\* C9 as stated: find_seeds never faults on the interval, and the positions
\* of each seed are the suffix-array entries of all rows of the interval
\* [lo, hi) returned for the seed's query, so that the seed's text occurs
\* verbatim at each of them.
C9_PositionsAreInterval ==
    op = "find_seeds" =>
        /\ pc # "fault"
        /\ \A i \in 1..Len(seeds) :
              /\ seeds[i][1] = IntervalRows(SeedInterval(i))
              /\ \A j \in 1..Len(seeds[i][1]) : OccursAt(seeds[i][4], seeds[i][1][j])

\* C10: find_seeds called with k = 0 returns [] for every read and every
\* budget, without a query of the index and without a fault.
C10_NoSeedsWanted ==
    (op = "find_seeds" /\ frames[1].k = 0) =>
        /\ queries = 0
        /\ pc # "fault"
        /\ pc = "done" => out = List(<<>>)

C10_Witness ==
    /\ op = "find_seeds"
    /\ pc = "done"
    /\ frames[1].k = 0
    /\ frames[1].mismatches >= 1
    /\ Len(frames[1].read) >= 2

\* the location sa[i] + length behind a position check_seeds reported
LocationOf(position) == Len(genome_sequence) + 1 - position

\* C11 as stated: with a high_bound supplied (any integer, 0 included), every
\* position check_seeds reports has a location below high_bound whose
\* distance to high_bound lies within [MIN_INTRON_SIZE, MAX_INTRON_SIZE].
C11_HighBoundFilters ==
    (op = "seed_finder" /\ pc = "done" /\ out.tag = "pair" /\ out.pieces[1]
        /\ frames[1].high_bound # <<>>) =>
        \A j \in 1..Len(out.pieces[2][1]) :
            LET location == LocationOf(out.pieces[2][1][j])
                high_bound == frames[1].high_bound[1]
            IN  /\ location < high_bound
                /\ MIN_INTRON_SIZE <= high_bound - location
                /\ high_bound - location <= MAX_INTRON_SIZE

\* the query contains a symbol outside {A, C, G, T}
IsForeign(q) == \E i \in DOMAIN q : q[i] \notin Range(BASES)

\* C12 as stated: a query with a symbol outside the alphabet is rejected by
\* find_seeds and by align_to_isoform (under align_to_transcriptome): it
\* never returns normally, no index query is made for it, and it never
\* yields a seed or an alignment.
C12_ForeignQueryRejected ==
    (op \in {"align_to_transcriptome", "find_seeds"} /\ IsForeign(read)) =>
        /\ pc # "done"
        /\ queries = 0
        /\ seeds = <<>>
        /\ match[1].tag # "list"
        /\ result[1].tag # "list"

shared == <<sa, M, occ, genome_sequence, transcriptome>>

BeginsWith(text, p, q) == Slice(text, p, p + Len(q)) = q /\ p + Len(q) <= Len(text)

\* the last k symbols of q
Suffix(q, k) == Slice(q, Len(q) - k, Len(q))

\* the length of the longest suffix of q that occurs in text
LongestSuffix(q, text) ==
    CHOOSE k \in 0..Len(q) :
        /\ \E p \in 0..Len(text) : BeginsWith(text, p, Suffix(q, k))
        /\ \A j \in (k + 1)..Len(q) :
              ~\E p \in 0..Len(text) : BeginsWith(text, p, Suffix(q, j))

\* C15 as stated: on the index of a terminated text the matcher returns the
\* length of the longest suffix of the query that occurs in the text and the
\* interval of exactly the rows whose suffixes begin with it; for the text
\* ACGTACGTACGT$ and the query ACGTACGT that is length 8 and two rows, of
\* the positions 0 and 4.
C15_LongestSuffixInterval ==
    (op = "exact_suffix_matches" /\ pc = "done") =>
        LET range == out.pieces[1]
            length == out.pieces[2]
        IN  /\ length = LongestSuffix(read, s)
            /\ \A i \in 0..(Len(sa) - 1) :
                  (range[1] <= i /\ i < range[2]) <=>
                      BeginsWith(s, PyIndex(sa, i), Suffix(read, length))
            /\ (s = Reverse(RepeatGenome) \o <<TERMINATOR>> /\ read = RepeatQuery) =>
                  /\ length = 8
                  /\ {PyIndex(sa, i) : i \in range[1]..(range[2] - 1)} = {0, 4}

Scanned(i) == Reverse(frames[i].read)

\* what invocation i left unmatched of the sequence it scanned
Remainder(i) == Slice(Scanned(i), 0, Len(Scanned(i)) - seeds[i][2])

\* C17 as stated: after a seed shorter than the read it was searched in, the
\* next seed is searched in the unmatched remainder of that read, in the
\* same orientation and from the same end, with seed count k - 1 and the
\* budget less the mismatches the seed consumed.
C17_RemainderSearched ==
    op = "find_seeds" =>
        \A i \in 1..(Len(frames) - 1) :
            /\ Scanned(i + 1) = Remainder(i)
            /\ frames[i + 1].k = frames[i].k - 1
            /\ frames[i + 1].mismatches = frames[i].mismatches - seeds[i][3]

\* the candidate invocation i of find_seeds ended its while loop with
FinalCandidate(i) == SeedOf(frames[i])[1]

\* some other base at the next unmatched position of the candidate's query
\* gives a greater matched length
CanImprove(candidate, len_read) ==
    LET idx == len_read - candidate[2] - 1
    IN  \E k \in DOMAIN BASES :
           /\ BASES[k] # candidate[3][idx + 1]
           /\ exact_suffix_matches(replace_base_at_index(candidate[3], idx, BASES[k]),
                                   M, occ)[2] > candidate[2]

\* C18 as stated: a seed of find_seeds is final only when it covers the
\* whole read it was searched in, or its mismatch count has reached the
\* budget, or no other base at the next unmatched position of its (mutated)
\* query gives a greater matched length.
C18_StopsOnlyWhenStalled ==
    op = "find_seeds" =>
        \A i \in 1..Len(seeds) :
            LET candidate == FinalCandidate(i)
                len_read == Len(frames[i].read)
            IN  \/ candidate[2] = len_read
                \/ candidate[4] >= frames[i].mismatches
                \/ ~CanImprove(candidate, len_read)

\* the candidates one substitution at the next unmatched position of
\* candidate c leads to
Substitutions(c, len_read) ==
    LET idx == len_read - c[2] - 1
    IN  {LET new_read == replace_base_at_index(c[3], idx, BASES[k])
             em == exact_suffix_matches(new_read, M, occ)
         IN  <<em[1], em[2], new_read, c[4] + 1>> :
         k \in {j \in DOMAIN BASES : BASES[j] # c[3][idx + 1]}}

\* those of them that tie for the greatest matched length, if it is greater
\* than the length of c
TyingBranches(c, len_read) ==
    {d \in Substitutions(c, len_read) :
        /\ d[2] > c[2]
        /\ \A e \in Substitutions(c, len_read) : e[2] <= d[2]}

\* some chain of tying substitutions from c reaches the full read length
\* within the budget
RECURSIVE ReachesFullLength(_, _, _)
ReachesFullLength(c, len_read, mismatches) ==
    IF c[2] >= len_read THEN c[4] <= mismatches
    ELSE /\ c[4] < mismatches
         /\ \E d \in TyingBranches(c, len_read) :
               ReachesFullLength(d, len_read, mismatches)

\* the candidate seed_finder hands to find_max_so_far
FirstCandidate ==
    LET em == exact_suffix_matches(frames[1].read, M, occ)
    IN  <<em[1], em[2], frames[1].read, 0>>

\* C19 as stated: find_max_so_far explores every substitution that ties for
\* the greatest length, so it returns (True, seed) with a seed of the full
\* read length whenever some chain of tying substitutions reaches the full
\* length within the budget.
C19_TyingBranchesExplored ==
    (op = "seed_finder" /\ pc \in {"check_seeds", "done", "fault"}
        /\ frames[1].k = 1
        /\ ReachesFullLength(FirstCandidate, Len(frames[1].read), frames[1].mismatches)) =>
        /\ max_so_far.kind = "pair"
        /\ max_so_far.test
        /\ max_so_far.seed[2] = Len(frames[1].read)

\* offsets of the isoform whose mismatch count is within the ceiling and
\* minimal over all offsets
BestOffsets(rd, isoform) ==
    {o \in OffsetsOf(rd, isoform) :
        /\ Hamming(rd, isoform, o) <= MAX_NUM_MISMATCHES
        /\ \A p \in OffsetsOf(rd, isoform) :
              Hamming(rd, isoform, o) <= Hamming(rd, isoform, p)}

SmallestBest(rd, isoform) ==
    CHOOSE o \in BestOffsets(rd, isoform) : \A p \in BestOffsets(rd, isoform) : o <= p

\* entries align_to_transcriptome has handed to align_to_isoform
Aligned == {e \in Entries : pc \in {"loop", "done", "fault"} /\ Before(e, <<gene_i, iso_i>>)}

\* C20: for the read and every isoform handed to align_to_isoform, the
\* counting loop runs to the end of the read exactly at the offsets with at
\* most MAX_NUM_MISMATCHES mismatches and counts them exactly; the offset
\* selected is the smallest one whose count is minimal over all offsets when
\* that minimum is within the ceiling; and a returned count never exceeds
\* the ceiling.
C20_SmallestBestOffset ==
    /\ \A e \in Aligned :
          LET isoform == IsoformOf(e)
              sel == ScanOffsets(read, isoform, 0, <<-1, Infinity>>)
              am == align_to_isoform(read, isoform, ExonsOf(e))
          IN  /\ \A o \in OffsetsOf(read, isoform) :
                    LET c == CountMismatches(read, isoform, o, 0, 0)
                        h == Hamming(read, isoform, o)
                    IN  /\ (c[1] = Len(read)) <=> (h <= MAX_NUM_MISMATCHES)
                        /\ c[1] = Len(read) => c[2] = h
              /\ BestOffsets(read, isoform) # {} =>
                    LET o == SmallestBest(read, isoform)
                    IN  /\ sel = <<o, Hamming(read, isoform, o)>>
                        /\ am = <<find_alignment(Len(read), o, ExonsOf(e)), sel[2]>>
                        /\ am[2] <= MAX_NUM_MISMATCHES
              /\ BestOffsets(read, isoform) = {} => sel[1] = -1
    /\ (pc = "done" /\ result[1] # MinusOne) => result[2] <= MAX_NUM_MISMATCHES

\* a finished call in which an isoform has two offsets tied at one mismatch
\* behind an offset the early break gave up on
C20_Witness ==
    /\ pc = "done"
    /\ result[2] = 1
    /\ \E e \in Aligned :
          /\ Cardinality(BestOffsets(read, IsoformOf(e))) >= 2
          /\ \E o \in OffsetsOf(read, IsoformOf(e)) :
                /\ o < SmallestBest(read, IsoformOf(e))
                /\ Hamming(read, IsoformOf(e), o) > MAX_NUM_MISMATCHES

----------------------------------------------------------------------------
(* Properties of find_alignment *)

\* piece <<read_start, reference_start, length>> lies inside one exon of the
\* prefix table
InsideOneExon(piece, exons) ==
    \E k \in DOMAIN exons :
        /\ exons[k][2] <= piece[2]
        /\ piece[2] + piece[3] <= exons[k][2] + exons[k][3]

\* every base of the piece is the genome base the spliced sequence has at
\* the piece's place
MapsToGenome(piece, isoform, align_start) ==
    \A d \in 0..(piece[3] - 1) :
        genome_sequence[piece[2] + d + 1] = isoform[align_start + piece[1] + d + 1]

\* C21: for every isoform handed to align_to_isoform, every read length and
\* every offset at which a read of that length fits into the spliced
\* sequence, the binary search of find_alignment ends on the exon whose
\* range of spliced offsets contains the offset, every piece produced lies
\* inside one exon, and every base of a piece is the genome base the spliced
\* sequence has there.
C21_PiecesFollowExons ==
    \A e \in Aligned :
        \A read_len \in 1..Len(IsoformOf(e)) :
            \A align_start \in 0..(Len(IsoformOf(e)) - read_len) :
                LET exons == ExonsOf(e)
                    idx == find_start_location(exons, align_start, 0, Len(exons),
                                               Len(exons) + 2)
                    algn == find_alignment(read_len, align_start, exons)
                IN  /\ idx \in 0..(Len(exons) - 1)
                    /\ exons[idx + 1][1] <= align_start
                    /\ align_start < exons[idx + 1][1] + exons[idx + 1][3]
                    /\ algn.tag = "list"
                    /\ \A k \in DOMAIN algn.pieces :
                          /\ InsideOneExon(algn.pieces[k], exons)
                          /\ MapsToGenome(algn.pieces[k], IsoformOf(e), align_start)

\* a returned alignment of two pieces that starts behind the first exon of
\* a three-exon isoform
C21_Witness ==
    /\ pc = "done"
    /\ result[1].tag = "list"
    /\ Len(result[1].pieces) = 2
    /\ \E e \in Aligned :
          /\ Len(ExonsOf(e)) = 3
          /\ AlignmentOf(e) = result[1]
          /\ result[1].pieces[1][2] >= ExonsOf(e)[2][2]

----------------------------------------------------------------------------
(* Properties of the seeds' mismatch counts and of the return values *)

\* number of positions at which two sequences of one length differ
Differing(a, b) == Cardinality({j \in DOMAIN a : a[j] # b[j]})

\* the seeds of find_seeds carry the count of their substitutions
FindSeedsCounts ==
    op = "find_seeds" =>
        \A i \in 1..Len(seeds) :
            seeds[i][3] = Differing(seeds[i][4],
                                    Slice(Scanned(i), Len(Scanned(i)) - seeds[i][2],
                                          Len(Scanned(i))))

\* the seed find_max_so_far returns carries the count of its substitutions
FindMaxSoFarCounts ==
    (op = "seed_finder" /\ pc \in {"check_seeds", "done"}
        /\ max_so_far # <<>> /\ max_so_far.kind = "pair" /\ max_so_far.seed # <<>>) =>
        max_so_far.seed[4] = Differing(max_so_far.seed[3], frames[1].read)

\* C22 as stated: the consumed-mismatch count of every seed find_seeds
\* returns, and of the seed find_max_so_far returns, is the number of
\* positions at which the seed's mutated query differs from the read it was
\* derived from.
C22_CountsEverySubstitution == FindSeedsCounts /\ FindMaxSoFarCounts

\* seed_finder has called find_max_so_far and the call has ended
FindMaxSoFarEnded ==
    /\ op = "seed_finder"
    /\ frames[1].k = 1
    /\ pc \in {"check_seeds", "done", "fault"}

\* C23 as stated: every call of find_max_so_far ends with a returned pair
\* (found, seed), never without a return value and never with an exception.
C23_AlwaysReturnsPair == FindMaxSoFarEnded => max_so_far.kind = "pair"

\* C24 as stated: for every seed count k a call of seed_finder ends with a
\* returned pair, (True, (positions, length)) with at least one position and
\* the length of the read, or (False, ()); it never ends without a return
\* value or with an exception.
C24_SeedFinderReturnsPair ==
    (op = "seed_finder" /\ pc \in {"done", "fault"}) =>
        /\ pc = "done"
        /\ out.tag = "pair"
        /\ \/ out.pieces = <<FALSE, <<>>>>
           \/ /\ out.pieces[1]
              /\ out.pieces[2][1] # <<>>
              /\ out.pieces[2][2] = Len(frames[1].read)

----------------------------------------------------------------------------
(* Properties of find_seeds' result *)

\* sum of the matched lengths of a list of seeds
RECURSIVE SeedsLen(_)
SeedsLen(l) == IF l = <<>> THEN 0 ELSE Head(l)[2] + SeedsLen(Tail(l))

\* a call of find_seeds on a read over the DNA alphabet has ended
FindSeedsEnded ==
    /\ op = "find_seeds"
    /\ pc \in {"done", "fault"}
    /\ ~IsForeign(frames[1].read)

\* C25 as stated: for every read over the alphabet, every budget and every
\* seed count k >= 0, find_seeds returns a list of at most k seeds whose
\* matched lengths sum to at most the read length, and to exactly the read
\* length when fewer than k seeds are returned.
C25_SeedsCoverRead ==
    FindSeedsEnded =>
        /\ pc = "done"
        /\ out.tag = "list"
        /\ Len(out.pieces) <= frames[1].k
        /\ SeedsLen(out.pieces) <= Len(frames[1].read)
        /\ Len(out.pieces) < frames[1].k => SeedsLen(out.pieces) = Len(frames[1].read)

----------------------------------------------------------------------------
(* Properties of check_seeds' positions *)

\* seed_finder has returned (True, (positions, length))
SeedFinderFound ==
    /\ op = "seed_finder"
    /\ pc = "done"
    /\ out.tag = "pair"
    /\ out.pieces[1]

\* rows of the index behind the seed seed_finder has reported
SeedRows == max_so_far.seed[1][1]..(max_so_far.seed[1][2] - 1)

\* C26 as stated: every position check_seeds reports for a match of the
\* reversed read in the index of the reversed genome is
\* len(genome) - (sa[i] + length) for a row i of the seed's interval, and
\* the read, with the seed's substitutions, occupies genome[p : p + length].
C26_ForwardPositions ==
    SeedFinderFound =>
        \A j \in 1..Len(out.pieces[2][1]) :
            LET p == out.pieces[2][1][j]
                length == out.pieces[2][2]
            IN  /\ \E i \in SeedRows : p = Len(genome_sequence) - (PyIndex(sa, i) + length)
                /\ OccursAt(Reverse(max_so_far.seed[3]), p)

====
